---- MODULE Spec2Model ----
(***************************************************************************)
(* The streaming chat pipeline of opencopilot:                             *)
(*   backend/src/domain/chat/on_user_message_streaming_use_case.py         *)
(*   backend/src/domain/chat/utils.py                                      *)
(* execute() is an async generator.  Each action below is the code the     *)
(* generator runs between two suspension points (an await on the callback  *)
(* channel, an await on the task, a yield to the caller).  The background  *)
(* task and the callback channel are collaborators whose code is not part  *)
(* of the sources; they are modelled from their documented contract.       *)
(* Text that the code searches or rewrites (templates, history, the user   *)
(* message) is a sequence of one-character strings.                        *)
(***************************************************************************)
EXTENDS Integers, Sequences, FiniteSets, TLC

\* ------------------------------------------------------------------ bounds
MaxEvents == 2
MaxClock == 1

\* ------------------------------------------------------- program constants
MAX_CONTEXT_DOCUMENTS_COUNT == 2

ContextMarker == <<"{", "c", "o", "n", "t", "e", "x", "t", "}">>
HistoryMarker == <<"{", "h", "i", "s", "t", "o", "r", "y", "}">>
QuestionMarker == <<"{", "q", "u", "e", "s", "t", "i", "o", "n", "}">>

None == "<None>"

\* ------------------------------------------------------------------ inputs
\* prompt_template.txt contents that get_system_message may read
SystemMessages ==
    { <<"C", ":">> \o ContextMarker,
      <<"{", "c", "o", "n", "t", "e", "x", "t">> }

\* prompt_template_unity_function.txt contents
FunctionTemplates == { HistoryMarker \o <<"Q", ":">> \o QuestionMarker }

\* texts get_prompt_history may return
HistoryTexts == { <<"{", "a", "}">> }

Messages == { <<"h", "i">> }
UnityUrls == { "", "http://unity" }

\* what document_store.find may return for a request of k fragments
StoreResults(k) ==
    { s \in { <<"d2", "d1">> } : Len(s) <= k }

\* values of the keys of a raw callback event
TokenValues == {"", "Hi"}
LoadingOk == "{\"message\":\"wait\"}"
LoadingBad == "{\"oops\":1}"
LoadingValues == {"{}", LoadingOk, LoadingBad}

\* a JSON object is the set of its key/value pairs
JsonObject(keys) == { <<k, keys[k]>> : k \in DOMAIN keys }

JsonObjects ==
    { {},
      JsonObject([token |-> "Hi"]),
      JsonObject([loading_message |-> "{}"]),
      JsonObject([token |-> "", loading_message |-> LoadingOk]),
      JsonObject([token |-> "Hi", loading_message |-> LoadingOk]),
      JsonObject([token |-> "Hi", loading_message |-> LoadingBad]) }

\* the strings the producer may put on the channel: JSON objects, a JSON
\* array, a text that is not JSON
RawEvents ==
    { [kind |-> "object", body |-> o] : o \in JsonObjects }
        \cup { [kind |-> "invalid", body |-> {}], [kind |-> "array", body |-> {}] }

TaskResults == {"Hi there"}
TaskErrors == {"RateLimitError"}
ChannelErrors == {"RuntimeError"}
StoreErrors == {"ConnectionError"}
HistoryErrors == {"OSError"}

\* ------------------------------------------------------------------- state
VARIABLES
    domain_input,                \* UserMessageInput
    unity_url,                   \* settings.UNITY_COPILOT_URL
    clock,                       \* the last value datetime.now() returned
    pc,                          \* position of the generator
    system_message,
    context,
    message_timestamp,
    unity_communication_prompt,
    result,
    cur,                         \* the parsed event being translated
    exc,                         \* the exception caught by `except Exception`
    propagated,                  \* the exception that left execute() uncaught
    asmFault,                    \* the exception a store raised during assembly
    chunks,                      \* StreamingChunks yielded to the caller
    origin,                      \* per chunk: index of the event it came from
    task,                        \* "none", "pending", "returned", "raised"
    task_value,                  \* return value or exception of the task
    queue,                       \* callback channel: events not yet delivered
    done,                        \* callback channel: producer has finished
    produced,                    \* every event the producer has put
    consumed,                    \* number of events delivered to the consumer
    findCalls,                   \* calls of document_store.find
    storeResult,                 \* what document_store.find returned
    historyReads,                \* calls of get_prompt_history
    historyText,                 \* what get_prompt_history returned
    validations,                 \* calls of validate_urls_use_case.execute
    saves,                       \* calls of history_repository.save_history
    call,                        \* a call of one of the plain functions
    ret,                         \* what that call returned or raised
    cancelledAt,                 \* where the generator was when it was closed
    request_stamp,               \* what had been done when line 42 read the clock
    response_stamp,              \* what had been done when line 90 read the clock
    validation_failures          \* per validation call: what it swallowed

inputVars == <<domain_input, unity_url>>
asmVars == <<system_message, context, message_timestamp, request_stamp,
             unity_communication_prompt, propagated, asmFault>>
genVars == <<pc, result, cur, exc, chunks, origin, consumed>>
prodVars == <<task, task_value, done, produced>>
storeVars == <<findCalls, storeResult, historyReads, historyText>>
finalVars == <<validations, saves, response_stamp, validation_failures>>
pureVars == <<call, ret>>

vars == <<domain_input, unity_url, clock, pc, system_message, context,
          message_timestamp, unity_communication_prompt, result, cur, exc,
          propagated, asmFault, chunks, origin, task, task_value, queue, done, produced,
          consumed, findCalls, storeResult, historyReads,
          historyText, validations, saves, call, ret, cancelledAt,
          request_stamp, response_stamp, validation_failures>>

\* ------------------------------------------------------------ text helpers
RECURSIVE Replace(_, _, _, _)
\* str.replace(old, new, count); count < 0 replaces every occurrence
Replace(s, old, new, count) ==
    IF count = 0 \/ Len(s) < Len(old) THEN s
    ELSE IF SubSeq(s, 1, Len(old)) = old
         THEN new \o Replace(SubSeq(s, Len(old) + 1, Len(s)), old, new, count - 1)
         ELSE <<Head(s)>> \o Replace(Tail(s), old, new, count)

\* `sub in s`
Contains(s, sub) ==
    \E i \in 1..(Len(s) - Len(sub) + 1) : SubSeq(s, i, i + Len(sub) - 1) = sub

NoPrompt == [none |-> TRUE, text |-> <<>>]
SomePrompt(t) == [none |-> FALSE, text |-> t]

\* utils.History
History(twh, fh) == [template_with_history |-> twh, formatted_history |-> fh]

\* mutant: the braces are escaped after the substitution, in the whole text
add_history_EscapeAfter(template, history) ==
    LET Escape(t) == Replace(Replace(t, <<"{">>, <<"{", "{">>, -1),
                             <<"}">>, <<"}", "}">>, -1)
    IN  History(Escape(Replace(template, HistoryMarker, history, 1)),
                Escape(history))

\* mutant: an empty history leaves the template as it is
add_history_SkipsEmpty(template, history) ==
    LET escaped == Replace(Replace(history, <<"{">>, <<"{", "{">>, -1),
                           <<"}">>, <<"}", "}">>, -1)
    IN  IF history = <<>>
        THEN History(template, <<>>)
        ELSE History(Replace(template, HistoryMarker, escaped, 1), escaped)

\* mutant: every occurrence of {history} is replaced
add_history_ReplaceAll(template, history) ==
    LET escaped == Replace(Replace(history, <<"{">>, <<"{", "{">>, -1),
                           <<"}">>, <<"}", "}">>, -1)
    IN  History(Replace(template, HistoryMarker, escaped, -1), escaped)

\* add_history, given the text get_prompt_history returned
add_history(template, history) ==
    LET escaped == Replace(Replace(history, <<"{">>, <<"{", "{">>, -1),
                           <<"}">>, <<"}", "}">>, -1)
    IN  History(Replace(template, HistoryMarker, escaped, 1), escaped)

\* the text get_unity_communication_prompt builds when the URL is set
UnityPromptText(template, history, message) ==
    Replace(add_history(template, history).template_with_history,
            QuestionMarker, message, 1)

\* ----------------------------------------------------------- event helpers
HasKey(obj, k) == \E p \in obj : p[1] = k
\* dict.get(k)
Get(obj, k) == IF HasKey(obj, k) THEN (CHOOSE p \in obj : p[1] = k)[2] ELSE None

\* mutant: `is not None` in place of the truth value
Truthy_NotNone(v) == v # None

\* truth value of what dict.get returned
Truthy(v) == v \notin {None, "", "{}"}

\* json.loads: the exception it raises, or None
JsonLoadsError(raw) == IF raw.kind = "invalid" THEN "JSONDecodeError" ELSE None
\* parsed.get on what json.loads returned: only a dict has .get
GetError(raw) == IF raw.kind = "array" THEN "AttributeError" ELSE None

\* LoadingMessage.from_dict: the exception it raises, or None
FromDictError(lm) == IF lm = LoadingOk THEN None ELSE "KeyError"
FromDict(lm) == "LoadingMessage(wait)"

StreamingChunk(text, loading, error) ==
    [chat_id |-> domain_input.chat_id, text |-> text, sources |-> <<>>,
     loading_message |-> loading, error |-> error]

TokenChunk(token) == StreamingChunk(token, None, None)
LoadingChunk(lm) == StreamingChunk("", FromDict(lm), None)
\* mutant: the error text does not name the kind of the exception
ErrorChunk_Generic(kind) == StreamingChunk("", None, "OpenAI error: Exception")

ErrorChunk(kind) == StreamingChunk("", None, "OpenAI error: " \o kind)

\* ------------------------------------------------------------------- Init
NoCall == [fn |-> "none"]

UserMessageInputs ==
    { [chat_id |-> "chat-1", message |-> m, response_message_id |-> "resp-1"] :
        m \in Messages }

Init ==
    /\ domain_input \in UserMessageInputs
    /\ unity_url \in UnityUrls
    /\ clock = 0
    /\ pc = "NOT_STARTED"
    /\ system_message = <<>>
    /\ context = <<>>
    /\ message_timestamp = -1
    /\ unity_communication_prompt = NoPrompt
    /\ result = ""
    /\ cur = <<>>
    /\ exc = None
    /\ propagated = None
    /\ asmFault = None
    /\ chunks = <<>>
    /\ origin = <<>>
    /\ task = "none"
    /\ task_value = None
    /\ queue = <<>>
    /\ done = FALSE
    /\ produced = <<>>
    /\ consumed = 0
    /\ findCalls = <<>>
    /\ storeResult = <<>>
    /\ historyReads = 0
    /\ historyText = <<>>
    /\ validations = <<>>
    /\ saves = <<>>
    /\ call = NoCall
    /\ ret = NoCall
    /\ cancelledAt = "none"
    /\ request_stamp = <<>>
    /\ response_stamp = <<>>
    /\ validation_failures = <<>>

\* what the request had done when the clock was read: the calls made of
\* document_store.find, get_prompt_history, validate_urls and save_history,
\* and whether the background task had been created
Seen(finds, validated, saved) ==
    [finds |-> finds, history_reads |-> historyReads, started |-> task # "none",
     validated |-> validated, saved |-> saved]

\* datetime.now().timestamp().  Time is counted from the reading of line 42
\* (the clock is 0 there); a later reading returns the last one or more.
Now == clock..MaxClock

\* --------------------------------------------------------------- assembly
\* mutant: the marker is looked for without its braces
NeedsContext_Loose(sm) == Contains(sm, <<"c", "o", "n", "t", "e", "x", "t">>)

\* _get_context: `"{context}" in system_message`
NeedsContext(sm) == Contains(sm, ContextMarker)

\* _get_context: the k passed to document_store.find (context is still empty)
FindK == MAX_CONTEXT_DOCUMENTS_COUNT - Len(<<>>)

\* _get_context: context = []; context.extend(found)
ExtendContext(found) == <<>> \o found

\* execute, lines 35-42: get_system_message, _get_context, message_timestamp
GetContext ==
    /\ pc = "NOT_STARTED"
    /\ \E sm \in SystemMessages :
        /\ system_message' = sm
        /\ IF NeedsContext(sm)
           THEN /\ findCalls' = Append(findCalls,
                                       [query |-> domain_input.message, k |-> FindK])
                /\ \/ \E e \in StoreErrors :
                        /\ asmFault' = e
                        /\ propagated' = e
                        /\ pc' = "raised"
                        /\ UNCHANGED <<context, storeResult, message_timestamp,
                                       request_stamp>>
                   \/ \E found \in StoreResults(FindK) :
                        /\ storeResult' = found
                        /\ context' = ExtendContext(found)
                        /\ message_timestamp' = clock
                        /\ request_stamp' = <<Seen(1, 0, 0)>>
                        /\ pc' = "ctx_done"
                        /\ UNCHANGED <<propagated, asmFault>>
           ELSE /\ context' = <<>>
                /\ message_timestamp' = clock
                /\ request_stamp' = <<Seen(0, 0, 0)>>
                /\ pc' = "ctx_done"
                /\ UNCHANGED <<findCalls, storeResult, propagated, asmFault>>
    /\ UNCHANGED <<pureVars, cancelledAt, inputVars, clock,
                   unity_communication_prompt, result, cur, exc,
                   chunks, origin, consumed, prodVars, queue,
                   historyReads, historyText, finalVars>>

\* get_unity_communication_prompt: `if settings.UNITY_COPILOT_URL`
UnityEnabled == unity_url # ""

\* mutant: the prompt is built inside the try block, a history store failure
\* is caught and reported as an error chunk
GetPrompt_Caught ==
    /\ pc = "ctx_done"
    /\ IF UnityEnabled
       THEN /\ historyReads' = historyReads + 1
            /\ \/ \E e \in HistoryErrors :
                    /\ asmFault' = e
                    /\ exc' = e
                    /\ chunks' = Append(chunks, ErrorChunk(e))
                    /\ origin' = Append(origin, 0)
                    /\ pc' = "after_error"
                    /\ UNCHANGED <<unity_communication_prompt, historyText, propagated>>
               \/ \E tmpl \in FunctionTemplates, h \in HistoryTexts :
                    /\ historyText' = h
                    /\ unity_communication_prompt' =
                           SomePrompt(UnityPromptText(tmpl, h, domain_input.message))
                    /\ pc' = "prompt_done"
                    /\ UNCHANGED <<propagated, asmFault, exc, chunks, origin>>
       ELSE /\ unity_communication_prompt' = NoPrompt
            /\ pc' = "prompt_done"
            /\ UNCHANGED <<historyReads, historyText, propagated, asmFault, exc,
                           chunks, origin>>
    /\ UNCHANGED <<pureVars, cancelledAt, inputVars, clock, system_message, context,
                   message_timestamp, request_stamp,
                   result, cur, consumed, prodVars, queue, findCalls, storeResult,
                   finalVars>>

\* execute, lines 44-46: get_unity_communication_prompt (and add_history in it)
GetPrompt ==
    /\ pc = "ctx_done"
    /\ IF UnityEnabled
       THEN /\ historyReads' = historyReads + 1
            /\ \/ \E e \in HistoryErrors :
                    /\ asmFault' = e
                    /\ propagated' = e
                    /\ pc' = "raised"
                    /\ UNCHANGED <<unity_communication_prompt, historyText>>
               \/ \E tmpl \in FunctionTemplates, h \in HistoryTexts :
                    /\ historyText' = h
                    /\ unity_communication_prompt' =
                           SomePrompt(UnityPromptText(tmpl, h, domain_input.message))
                    /\ pc' = "prompt_done"
                    /\ UNCHANGED <<propagated, asmFault>>
       ELSE /\ unity_communication_prompt' = NoPrompt
            /\ pc' = "prompt_done"
            /\ UNCHANGED <<historyReads, historyText, propagated, asmFault>>
    /\ UNCHANGED <<pureVars, cancelledAt, inputVars, clock, system_message, context,
                   message_timestamp, request_stamp,
                   result, cur, exc, chunks, origin, consumed,
                   prodVars, queue, findCalls, storeResult, finalVars>>

\* execute, lines 47-62: create_task, result = "", first await on the channel
StartTask ==
    /\ pc = "prompt_done"
    /\ task' = "pending"
    /\ result' = ""
    /\ pc' = "await_event"
    /\ UNCHANGED <<pureVars, cancelledAt, inputVars, clock, asmVars, cur, exc, chunks, origin, consumed,
                   task_value, done, produced, queue, storeVars,
                   finalVars>>

\* --------------------------------------------- the background task (producer)
\* the task puts one more event on the callback channel
ProducerEmit ==
    /\ task = "pending"
    /\ ~done
    /\ Len(produced) < MaxEvents
    /\ \E ev \in RawEvents :
        /\ queue' = Append(queue, ev)
        /\ produced' = Append(produced, ev)
    /\ UNCHANGED <<pureVars, cancelledAt, inputVars, clock, asmVars, genVars, task, task_value, done,
                   storeVars, finalVars>>

\* the channel is completed: no event will follow
ProducerClose ==
    /\ task # "none"
    /\ ~done
    /\ done' = TRUE
    /\ UNCHANGED <<pureVars, cancelledAt, inputVars, clock, asmVars, genVars, task, task_value, produced,
                   queue, storeVars, finalVars>>

\* get_gpt_result_use_case.execute returns the final text
ProducerReturn ==
    /\ task = "pending"
    /\ \E v \in TaskResults :
        /\ task' = "returned"
        /\ task_value' = v
    /\ UNCHANGED <<pureVars, cancelledAt, inputVars, clock, asmVars, genVars, done, produced, queue,
                   storeVars, finalVars>>

\* get_gpt_result_use_case.execute raises
ProducerRaise ==
    /\ task = "pending"
    /\ \E e \in TaskErrors :
        /\ task' = "raised"
        /\ task_value' = e
    /\ UNCHANGED <<pureVars, cancelledAt, inputVars, clock, asmVars, genVars, done, produced, queue,
                   storeVars, finalVars>>

RECURSIVE StreamedText(_)
\* the concatenation of the texts of the first n chunks
StreamedText(n) == IF n = 0 THEN "" ELSE StreamedText(n - 1) \o chunks[n].text

\* ------------------------------------------- the generator (consumer) body
\* a yield: the chunk is handed to the caller; idx is the event it came from
Yield(chunk, idx) ==
    /\ chunks' = Append(chunks, chunk)
    /\ origin' = Append(origin, idx)

\* validate_urls_use_case.execute: the call is recorded; it returns without
\* raising, whatever it finds
validate_urls(text, chat_id) ==
    Append(validations, [text |-> text, chat_id |-> chat_id])

\* what validate_urls_use_case.execute may swallow and log
ValidationFailures == {None, "ValidationError"}

\* mutant: a failure of the validation pass leaves the finally block
Finalize_ValidationRaises(res) ==
    /\ validations' = validate_urls(res, domain_input.chat_id)
    /\ \E failure \in ValidationFailures :
        /\ validation_failures' = Append(validation_failures, failure)
        /\ IF failure # None
           THEN UNCHANGED <<clock, saves, response_stamp>>
           ELSE \E response_timestamp \in Now :
                /\ clock' = response_timestamp
                /\ response_stamp' = <<Seen(Len(findCalls), Len(validations) + 1,
                                            Len(saves))>>
                /\ saves' = Append(saves,
                                   [input_message |-> domain_input.message,
                                    output_message |-> res,
                                    request_timestamp |-> message_timestamp,
                                    response_timestamp |-> response_timestamp,
                                    chat_id |-> domain_input.chat_id,
                                    response_message_id |->
                                        domain_input.response_message_id])
    /\ pc' = "FINALIZED"

\* lines 87-99, the finally block: validate, response_timestamp, save_history
Finalize(res) ==
    /\ validations' = validate_urls(res, domain_input.chat_id)
    /\ \E failure \in ValidationFailures :
        validation_failures' = Append(validation_failures, failure)
    /\ \E response_timestamp \in Now :
        /\ clock' = response_timestamp
        /\ response_stamp' = <<Seen(Len(findCalls), Len(validations) + 1,
                                    Len(saves))>>
        /\ saves' = Append(saves,
                           [input_message |-> domain_input.message,
                            output_message |-> res,
                            request_timestamp |-> message_timestamp,
                            response_timestamp |-> response_timestamp,
                            chat_id |-> domain_input.chat_id,
                            response_message_id |-> domain_input.response_message_id])
    /\ pc' = "FINALIZED"

\* mutant: the handler keeps the text streamed so far as the result
Except_KeepsStreamed(kind, held) ==
    /\ exc' = kind
    /\ cur' = held
    /\ Yield(ErrorChunk(kind), 0)
    /\ pc' = "after_error"
    /\ result' = StreamedText(Len(chunks))
    /\ UNCHANGED finalVars

\* lines 79-86, `except Exception`: log, yield the error chunk
Except(kind, held) ==
    /\ exc' = kind
    /\ cur' = held
    /\ Yield(ErrorChunk(kind), 0)
    /\ pc' = "after_error"
    /\ UNCHANGED <<result, finalVars>>

\* lines 70-76 and the return to the head of the loop
LoadingStep(parsed, idx) ==
    LET loading_message == Get(parsed, "loading_message")
    IN  IF Truthy(loading_message)
        THEN IF FromDictError(loading_message) # None
             THEN Except(FromDictError(loading_message), <<parsed>>)
             ELSE /\ Yield(LoadingChunk(loading_message), idx)
                  /\ cur' = <<parsed>>
                  /\ pc' = "after_loading"
                  /\ UNCHANGED <<exc, result, finalVars>>
        ELSE /\ cur' = <<>>
             /\ pc' = "await_event"
             /\ UNCHANGED <<exc, chunks, origin, result, finalVars>>

\* lines 63-69 (and 70-76 when no token chunk is yielded)
TokenStep(raw, idx) ==
    IF JsonLoadsError(raw) # None THEN Except(JsonLoadsError(raw), <<>>)
    ELSE IF GetError(raw) # None THEN Except(GetError(raw), <<>>)
    ELSE LET parsed == raw.body
             token == Get(parsed, "token")
         IN  IF Truthy(token)
             THEN /\ Yield(TokenChunk(token), idx)
                  /\ cur' = <<parsed>>
                  /\ pc' = "after_token"
                  /\ UNCHANGED <<exc, result, finalVars>>
             ELSE LoadingStep(parsed, idx)

\* mutant: the newest event is taken first
NextEvent_Lifo ==
    /\ pc = "await_event"
    /\ queue # <<>>
    /\ queue' = SubSeq(queue, 1, Len(queue) - 1)
    /\ consumed' = consumed + 1
    /\ TokenStep(queue[Len(queue)], consumed + 1)
    /\ UNCHANGED <<pureVars, cancelledAt, inputVars, clock, asmVars, prodVars, storeVars>>

\* line 62: the channel delivers the next event; lines 63-76 translate it
NextEvent ==
    /\ pc = "await_event"
    /\ queue # <<>>
    /\ queue' = Tail(queue)
    /\ consumed' = consumed + 1
    /\ TokenStep(Head(queue), consumed + 1)
    /\ UNCHANGED <<pureVars, cancelledAt, inputVars, clock, asmVars, prodVars, storeVars>>

\* mutant: `elif loading_message`, the second check is skipped after a token
ResumeAfterToken_Elif ==
    /\ pc = "after_token"
    /\ cur' = <<>>
    /\ pc' = "await_event"
    /\ UNCHANGED <<pureVars, cancelledAt, inputVars, clock, asmVars, result, exc, chunks, origin,
                   consumed, prodVars, queue, storeVars, finalVars>>

\* the caller asks for the next chunk after a token chunk: lines 70-76
ResumeAfterToken ==
    /\ pc = "after_token"
    /\ LoadingStep(cur[1], consumed)
    /\ UNCHANGED <<pureVars, cancelledAt, inputVars, clock, asmVars, consumed, prodVars,
                   queue, storeVars>>

\* the caller asks for the next chunk after a loading chunk: back to line 62
ResumeAfterLoading ==
    /\ pc = "after_loading"
    /\ cur' = <<>>
    /\ pc' = "await_event"
    /\ UNCHANGED <<pureVars, cancelledAt, inputVars, clock, asmVars, result, exc, chunks, origin,
                   consumed, prodVars, queue, storeVars, finalVars>>

\* mutant: the loop ends as soon as the producer has finished
Exhausted_Early ==
    /\ pc = "await_event"
    /\ done
    /\ pc' = "await_task"
    /\ UNCHANGED <<pureVars, cancelledAt, inputVars, clock, asmVars, result, cur, exc,
                   chunks, origin, consumed, prodVars, queue, storeVars, finalVars>>

\* line 62: the channel signals exhaustion, the loop ends
Exhausted ==
    /\ pc = "await_event"
    /\ queue = <<>>
    /\ done
    /\ pc' = "await_task"
    /\ UNCHANGED <<pureVars, cancelledAt, inputVars, clock, asmVars, result, cur, exc, chunks, origin,
                   consumed, prodVars, queue, storeVars, finalVars>>

\* line 62: the channel iteration raises
ChannelRaise ==
    /\ pc = "await_event"
    /\ \E e \in ChannelErrors : Except(e, <<>>)
    /\ UNCHANGED <<pureVars, cancelledAt, inputVars, clock, asmVars, consumed, prodVars, queue, storeVars>>

\* mutant: the text saved is the text that was streamed
AwaitTask_SavesStreamed ==
    /\ pc = "await_task"
    /\ task \in {"returned", "raised"}
    /\ IF task = "raised"
       THEN Except(task_value, <<>>) /\ UNCHANGED clock
       ELSE /\ result' = StreamedText(Len(chunks))
            /\ Finalize(StreamedText(Len(chunks)))
            /\ UNCHANGED <<cur, exc, chunks, origin>>
    /\ UNCHANGED <<pureVars, cancelledAt, inputVars, asmVars, consumed, prodVars, queue, storeVars>>

\* mutant: a task that raised is never noticed
AwaitTask_ReturnedOnly ==
    /\ pc = "await_task"
    /\ task = "returned"
    /\ result' = task_value
    /\ Finalize(task_value)
    /\ UNCHANGED <<cur, exc, chunks, origin>>
    /\ UNCHANGED <<pureVars, cancelledAt, inputVars, asmVars, consumed, prodVars, queue, storeVars>>

\* lines 77-78, then the finally block when the task returned
AwaitTask ==
    /\ pc = "await_task"
    /\ task \in {"returned", "raised"}
    /\ IF task = "raised"
       THEN Except(task_value, <<>>) /\ UNCHANGED clock
       ELSE /\ result' = task_value
            /\ Finalize(task_value)
            /\ UNCHANGED <<cur, exc, chunks, origin>>
    /\ UNCHANGED <<pureVars, cancelledAt, inputVars, asmVars, consumed, prodVars, queue, storeVars>>

\* mutant: save_history is on the success path only, not in a finally block
ResumeAfterError_NoSave ==
    /\ pc = "after_error"
    /\ pc' = "FINALIZED"
    /\ UNCHANGED <<pureVars, cancelledAt, inputVars, clock, asmVars, result, cur, exc, chunks, origin,
                   consumed, prodVars, queue, storeVars, finalVars>>

\* the caller asks for the next chunk after the error chunk: the finally block
ResumeAfterError ==
    /\ pc = "after_error"
    /\ Finalize(result)
    /\ UNCHANGED <<pureVars, cancelledAt, inputVars, asmVars, result, cur, exc, chunks, origin,
                   consumed, prodVars, queue, storeVars>>

\* the places where the generator is suspended
Suspended == {"await_event", "after_token", "after_loading", "after_error",
              "await_task"}

\* mutant: `except BaseException`, the cancellation is reported as an error
Cancel_Caught ==
    /\ pc \in Suspended \ {"after_error"}
    /\ cancelledAt' = pc
    /\ Except(IF pc = "await_event" \/ pc = "await_task"
              THEN "CancelledError" ELSE "GeneratorExit", cur)
    /\ UNCHANGED <<pureVars, inputVars, clock, asmVars, consumed, prodVars, queue,
                   storeVars>>

\* the caller is cancelled or closes the generator while it is suspended:
\* CancelledError (at an await) or GeneratorExit (at a yield) is thrown in,
\* `except Exception` does not catch it, the finally block runs.  A task
\* that is being awaited at line 77 is cancelled with its awaiter.
Cancel ==
    /\ pc \in Suspended
    /\ cancelledAt = "none"
    /\ cancelledAt' = pc
    /\ task' = IF pc = "await_task" /\ task = "pending" THEN "cancelled" ELSE task
    /\ Finalize(result)
    /\ UNCHANGED <<pureVars, inputVars, asmVars, result, cur, exc, chunks, origin,
                   consumed, task_value, done, produced, queue, storeVars>>

\* ---------------------------------------------------------- specification
Consumer ==
    \/ NextEvent
    \/ ResumeAfterToken
    \/ ResumeAfterLoading
    \/ Exhausted
    \/ ChannelRaise
    \/ AwaitTask
    \/ ResumeAfterError

Producer ==
    \/ ProducerEmit
    \/ ProducerClose
    \/ ProducerReturn
    \/ ProducerRaise

Next ==
    \/ GetContext
    \/ GetPrompt
    \/ StartTask
    \/ Consumer
    \/ Producer
    \/ Cancel

Spec == Init /\ [][Next]_vars

\* the steps the generator takes when the caller keeps asking for chunks and
\* the channel does not fail
Translate ==
    \/ NextEvent
    \/ ResumeAfterToken
    \/ ResumeAfterLoading
    \/ Exhausted
    \/ AwaitTask
    \/ ResumeAfterError

\* the event loop runs the task and the generator whenever they can run
FairSpec == Spec /\ WF_vars(Translate) /\ WF_vars(Producer)

\* ------------------------------------------------------ the plain functions
\* utils.add_history, utils.get_unity_communication_prompt and
\* create_access_token.execute are functions of their arguments, of the
\* settings and of what the history repository returns.  PureSpec calls them
\* on texts that Spec does not reach.

\* templates: prompt_template*.txt contents
PureTemplates ==
    { HistoryMarker \o <<"Q", ":">> \o QuestionMarker,
      QuestionMarker \o <<"|">> \o HistoryMarker,
      HistoryMarker \o <<"|">> \o HistoryMarker,
      <<"{", "x", "}">> \o HistoryMarker \o <<"{", "y", "}">> \o HistoryMarker,
      <<"H", "i">> \o QuestionMarker,
      <<"{", "h", "i", "s", "t", "o", "r", "y">> }

\* texts get_prompt_history may return
PureHistories ==
    { <<>>,
      <<"a">>,
      <<"{">>,
      <<"}", "{">>,
      <<"{", "a", "}">>,
      <<"{", "{", "a", "}", "}">>,
      HistoryMarker,
      QuestionMarker }

PureMessages == { <<"h", "i">>, <<"{", "m", "}">> }

JWT_CLIENT_ID == "client-id"
JWT_CLIENT_SECRET == "client-secret"
JWT_TOKEN_EXPIRATION_SECONDS == 3600

ClientIds == { JWT_CLIENT_ID, "other-id", "" }
ClientSecrets == { JWT_CLIENT_SECRET, "other-secret", "" }
UserIds == { "user-1", "user-2" }

\* mutant: an empty text, built after a read of the history, when the URL is unset
get_unity_communication_prompt_Empty(url, template, history, message) ==
    IF url # ""
    THEN [value |-> SomePrompt(UnityPromptText(template, history, message)),
          reads |-> 1]
    ELSE [value |-> SomePrompt(<<>>), reads |-> 1]

\* get_unity_communication_prompt: the value returned and the number of
\* reads of the history repository it made
get_unity_communication_prompt(url, template, history, message) ==
    IF url # ""
    THEN [value |-> SomePrompt(UnityPromptText(template, history, message)),
          reads |-> 1]
    ELSE [value |-> NoPrompt, reads |-> 0]

\* jwt.encode: the token carries the payload, signed with key
jwt_encode(payload, key, algorithm) ==
    [payload |-> payload, key |-> key, alg |-> algorithm]

NoToken == [payload |-> [iat |-> 0, exp |-> 0, sub |-> None], key |-> None,
            alg |-> None]

\* mutant: `and` in place of `or` in the credential check
create_access_token_And(client_id, client_secret, user_id, now) ==
    IF client_id # JWT_CLIENT_ID /\ client_secret # JWT_CLIENT_SECRET
    THEN [raised |-> "InvalidCredentialsAPIError", token |-> NoToken]
    ELSE [raised |-> None,
          token |-> jwt_encode([iat |-> now - 100,
                                exp |-> now + JWT_TOKEN_EXPIRATION_SECONDS,
                                sub |-> user_id],
                               JWT_CLIENT_SECRET, "HS256")]

\* create_access_token.execute at time now
create_access_token(client_id, client_secret, user_id, now) ==
    IF client_id # JWT_CLIENT_ID \/ client_secret # JWT_CLIENT_SECRET
    THEN [raised |-> "InvalidCredentialsAPIError", token |-> NoToken]
    ELSE [raised |-> None,
          token |-> jwt_encode([iat |-> now - 100,
                                exp |-> now + JWT_TOKEN_EXPIRATION_SECONDS,
                                sub |-> user_id],
                               JWT_CLIENT_SECRET, "HS256")]

mainVars == <<domain_input, unity_url, clock, pc, system_message, context,
              message_timestamp, unity_communication_prompt, result, cur, exc,
              propagated, asmFault, chunks, origin, task, task_value, queue,
              done, produced, consumed, findCalls, storeResult, historyReads,
              historyText, validations, saves,
             cancelledAt, request_stamp, response_stamp, validation_failures>>

CallAddHistory ==
    /\ \E template \in PureTemplates, history \in PureHistories :
        /\ call' = [fn |-> "add_history", template |-> template,
                    history |-> history]
        /\ ret' = add_history(template, history)
    /\ UNCHANGED mainVars

CallGetUnityPrompt ==
    /\ \E template \in PureTemplates, history \in PureHistories,
          message \in PureMessages :
        /\ call' = [fn |-> "get_unity_communication_prompt",
                    template |-> template, history |-> history,
                    message |-> message]
        /\ ret' = get_unity_communication_prompt(unity_url, template, history,
                                                 message)
    /\ UNCHANGED mainVars

CallCreateToken ==
    /\ \E client_id \in ClientIds, client_secret \in ClientSecrets,
          user_id \in UserIds, now \in 0..MaxClock :
        /\ call' = [fn |-> "create_access_token", client_id |-> client_id,
                    client_secret |-> client_secret, user_id |-> user_id,
                    now |-> now]
        /\ ret' = create_access_token(client_id, client_secret, user_id, now)
    /\ UNCHANGED mainVars

PureNext ==
    \/ CallAddHistory
    \/ CallGetUnityPrompt
    \/ CallCreateToken

PureSpec == Init /\ [][PureNext]_vars

\* ------------------------------------------------- vocabulary of the claims
Ended == pc \in {"FINALIZED", "raised"}
StreamingStarted == task # "none"

ErrorIdx == { i \in 1..Len(chunks) : chunks[i].error # None }

\* the save_history call the finally block is to make for output text `out`
SaveRecord(out) ==
    [input_message |-> domain_input.message,
     output_message |-> out,
     chat_id |-> domain_input.chat_id,
     response_message_id |-> domain_input.response_message_id]

SavedArgs(i) ==
    [input_message |-> saves[i].input_message,
     output_message |-> saves[i].output_message,
     chat_id |-> saves[i].chat_id,
     response_message_id |-> saves[i].response_message_id]

\* ---------------------------------------------------------------------- C1
\* C1 (as stated): every request that has ended, whatever way it ended, has
\* called save_history exactly once.
C1_EveryRequestSavesOnce == Ended => Len(saves) = 1

\* C1 (amended): save_history is never called twice; a request whose stream
\* was started has called it exactly once when it has ended and not before,
\* whether the task returned, the task raised or the channel or the parsing
\* raised; a request whose assembly raised ends without any call.
C1_StartedRequestSavesOnce ==
    /\ Len(saves) <= 1
    /\ StreamingStarted /\ Ended => pc = "FINALIZED" /\ Len(saves) = 1
    /\ ~Ended => Len(saves) = 0
    /\ pc = "raised" => ~StreamingStarted /\ Len(saves) = 0

C1_Witness ==
    /\ pc = "FINALIZED"
    /\ exc \in ChannelErrors
    /\ task = "raised"
    /\ Len(chunks) > 1
    /\ Len(saves) = 1

\* ---------------------------------------------------------------------- C2
\* C2: under fair scheduling every request whose streaming has started
\* reaches FINALIZED, its stream ended cleanly or by one error chunk, also
\* when the task fails and when the consumer raises.
C2_EventuallyFinalized ==
    StreamingStarted ~>
        /\ pc = "FINALIZED"
        /\ Len(saves) = 1
        /\ IF exc = None THEN ErrorIdx = {} ELSE ErrorIdx = {Len(chunks)}

C2_Witness ==
    /\ pc = "FINALIZED"
    /\ task = "raised"
    /\ exc \in TaskErrors
    /\ ErrorIdx = {Len(chunks)}
    /\ Len(chunks) = 3

\* ---------------------------------------------------------------------- C3
\* C3: an exception in the channel iteration, the parsing or the await of the
\* task puts exactly one error chunk on the stream (empty text, no sources,
\* error "OpenAI error: <kind>"), it is the last chunk, and no chunk follows.
C3_OneTerminalErrorChunk ==
    /\ Cardinality(ErrorIdx) <= 1
    /\ (exc # None) <=> (ErrorIdx # {})
    /\ exc # None => pc \in {"after_error", "FINALIZED"}
    /\ \A i \in ErrorIdx :
        /\ i = Len(chunks)
        /\ chunks[i] = [chat_id |-> domain_input.chat_id, text |-> "",
                        sources |-> <<>>, loading_message |-> None,
                        error |-> "OpenAI error: " \o exc]

C3_Witness ==
    /\ pc = "FINALIZED"
    /\ exc = "JSONDecodeError"
    /\ Len(chunks) = 3
    /\ chunks[3].error = "OpenAI error: JSONDecodeError"

\* --------------------------------------------- chunks and events, C4 to C6
\* the chunks that came from event i, in the order of their emission
ChunksOf(i) ==
    LET idx == SelectSeq([j \in 1..Len(chunks) |-> j], LAMBDA j : origin[j] = i)
    IN  [n \in 1..Len(idx) |-> chunks[idx[n]]]

\* event i has been translated to its end and the loop is past it
Handled(i) == i < consumed \/ (i = consumed /\ cur = <<>>)

IsObject(i) == produced[i].kind = "object"
TokenOf(i) == Get(produced[i].body, "token")
LoadingOf(i) == Get(produced[i].body, "loading_message")
NonEmpty(v) == v # None /\ v # "" /\ v # "{}"

ExpectedTokenChunk(i) ==
    [chat_id |-> domain_input.chat_id, text |-> TokenOf(i), sources |-> <<>>,
     loading_message |-> None, error |-> None]

ExpectedLoadingChunk(i) ==
    [chat_id |-> domain_input.chat_id, text |-> "", sources |-> <<>>,
     loading_message |-> "LoadingMessage(wait)", error |-> None]

\* the chunks an event is to be translated to when nothing raises
Expected(i) ==
    IF ~IsObject(i) THEN <<>>
    ELSE (IF NonEmpty(TokenOf(i)) THEN <<ExpectedTokenChunk(i)>> ELSE <<>>)
         \o (IF LoadingOf(i) = LoadingOk THEN <<ExpectedLoadingChunk(i)>> ELSE <<>>)

IsPrefix(a, b) == Len(a) <= Len(b) /\ a = SubSeq(b, 1, Len(a))

\* the chunks of event i are next to each other on the stream
Contiguous(i) ==
    \A j, k \in 1..Len(chunks) :
        origin[j] = i /\ origin[k] = i => \A m \in j..k : origin[m] = i

\* ---------------------------------------------------------------------- C4
\* C4 (as stated): every translated event that has both keys, token and
\* loading_message, gave exactly two chunks, the token chunk then the
\* loading chunk; an event with neither key gave none.
C4_BothKeysGiveTwoChunks ==
    \A i \in 1..consumed :
        Handled(i) /\ IsObject(i) =>
            /\ HasKey(produced[i].body, "token")
                 /\ HasKey(produced[i].body, "loading_message")
               => Len(ChunksOf(i)) = 2
            /\ produced[i].body = {} => ChunksOf(i) = <<>>

\* C4 (amended): every translated event whose token and loading_message are
\* both non-empty, and whose loading_message LoadingMessage.from_dict
\* accepts, gave exactly two chunks, the token chunk then the loading chunk,
\* next to each other; an event with neither key gave none.
C4_BothNonEmptyGiveTwoChunks ==
    \A i \in 1..consumed :
        Handled(i) /\ IsObject(i) =>
            /\ NonEmpty(TokenOf(i)) /\ LoadingOf(i) = LoadingOk
               => /\ ChunksOf(i) = <<ExpectedTokenChunk(i), ExpectedLoadingChunk(i)>>
                  /\ Contiguous(i)
            /\ produced[i].body = {} => ChunksOf(i) = <<>>

C4_Witness ==
    /\ consumed = 2
    /\ Handled(2)
    /\ produced[1].body = {}
    /\ NonEmpty(TokenOf(2)) /\ LoadingOf(2) = LoadingOk
    /\ Len(chunks) = 2

\* ---------------------------------------------------------------------- C5
\* C5 (as stated): every delivered event that carries a token key gave one
\* chunk whose text is the token value and whose sources are empty, the
\* empty string included.
C5_EveryTokenKeyGivesChunk ==
    \A i \in 1..consumed :
        IsObject(i) /\ HasKey(produced[i].body, "token") =>
            /\ Len(ChunksOf(i)) >= 1
            /\ ChunksOf(i)[1] = ExpectedTokenChunk(i)

\* C5 (amended): every delivered event whose token value is not empty gave
\* one chunk whose text is that value and whose sources are empty, and it is
\* the first chunk of the event; an event whose token is the empty string or
\* is missing gave no token chunk.
C5_NonEmptyTokenGivesChunk ==
    \A i \in 1..consumed :
        IsObject(i) =>
            LET tokenChunks == SelectSeq(ChunksOf(i),
                                         LAMBDA c : c.loading_message = None)
            IN  IF NonEmpty(TokenOf(i))
                THEN /\ tokenChunks = <<ExpectedTokenChunk(i)>>
                     /\ ChunksOf(i)[1] = ExpectedTokenChunk(i)
                ELSE tokenChunks = <<>>

C5_Witness ==
    /\ consumed = 2
    /\ Handled(2)
    /\ TokenOf(1) = "Hi" /\ TokenOf(2) = ""
    /\ origin = <<1, 2>>
    /\ chunks[1].text = "Hi"
    /\ chunks[2].text = "" /\ chunks[2].loading_message # None

\* ---------------------------------------------------------------------- C6
\* C6: the chunks reach the caller in the order the producer put the events:
\* the channel hands over the events in that order, none lost, none twice;
\* the chunks of an earlier event all precede those of a later one; each
\* event gives its chunks once, all of them once it is translated; and the
\* consumer holds at most one event at a time.
C6_OrderPreserved ==
    /\ consumed <= Len(produced)
    /\ queue = SubSeq(produced, consumed + 1, Len(produced))
    /\ Len(cur) <= 1
    /\ cur # <<>> => consumed >= 1 /\ cur[1] = produced[consumed].body
    /\ \A j \in 1..Len(chunks) :
        /\ origin[j] \in 0..consumed
        /\ origin[j] = 0 <=> chunks[j].error # None
    /\ \A j, k \in 1..Len(chunks) :
        j < k /\ origin[k] # 0 => origin[j] <= origin[k]
    /\ \A i \in 1..consumed :
        /\ IsPrefix(ChunksOf(i), Expected(i))
        /\ Handled(i) => ChunksOf(i) = Expected(i)

C6_Witness ==
    /\ consumed = 2
    /\ pc = "FINALIZED"
    /\ exc = None
    /\ Len(chunks) = 3
    /\ origin = <<1, 2, 2>>
    /\ chunks[1].loading_message # None

\* ---------------------------------------------------------------------- C7
\* C7: on the success path the text validated and saved is the return value
\* of the task, whatever tokens were streamed.  (The success path: the stream
\* ended without an exception and the generator was not closed early.)
C7_SavedTextIsTaskResult ==
    pc = "FINALIZED" /\ exc = None /\ cancelledAt = "none" =>
        /\ task = "returned"
        /\ result = task_value
        /\ Len(saves) = 1 /\ SavedArgs(1) = SaveRecord(task_value)
        /\ validations = <<[text |-> task_value, chat_id |-> domain_input.chat_id]>>

C7_Witness ==
    /\ pc = "FINALIZED"
    /\ exc = None
    /\ cancelledAt = "none"
    /\ Len(chunks) = 2
    /\ StreamedText(Len(chunks)) = "HiHi"
    /\ saves[1].output_message = "Hi there"

\* ---------------------------------------------------------------------- C8
\* C8: when the channel iteration raises, the chunks already emitted are
\* followed by exactly one error chunk, and save_history is then called with
\* the empty string, whatever was streamed and whatever the task returned.
C8_ChannelFailureSavesEmpty ==
    exc \in ChannelErrors =>
        /\ ErrorIdx = {Len(chunks)}
        /\ result = ""
        /\ pc = "after_error" => saves = <<>>
        /\ pc = "FINALIZED" => Len(saves) = 1 /\ SavedArgs(1) = SaveRecord("")
        /\ pc \in {"after_error", "FINALIZED"}

C8_Witness ==
    /\ pc = "FINALIZED"
    /\ exc \in ChannelErrors
    /\ Len(chunks) = 2
    /\ chunks[1].text = "Hi"
    /\ task = "returned" /\ task_value = "Hi there"
    /\ saves[1].output_message = ""

\* ---------------------------------------------------------------------- C9
\* C9: a document store or history store failure during assembly leaves
\* execute() uncaught: no chunk at all is emitted, no error chunk either,
\* and the background task is never started.
C9_AssemblyFailurePropagates ==
    asmFault # None =>
        /\ pc = "raised"
        /\ propagated = asmFault
        /\ exc = None
        /\ chunks = <<>>
        /\ task = "none" /\ produced = <<>>

C9_Witness ==
    /\ asmFault \in HistoryErrors
    /\ pc = "raised"
    /\ context = <<"d2", "d1">>

\* --------------------------------------------------------------------- C10
\* C10: without the {context} marker in the system message the context is
\* empty and document_store.find is not called; with it find is called once,
\* with the user's message and k = MAX_CONTEXT_DOCUMENTS_COUNT, and the
\* context is what the store returned, in the store's order.
C10_ContextAssembly ==
    /\ pc = "NOT_STARTED" => findCalls = <<>>
    /\ pc # "NOT_STARTED" =>
        IF Contains(system_message, ContextMarker)
        THEN /\ findCalls = <<[query |-> domain_input.message,
                               k |-> MAX_CONTEXT_DOCUMENTS_COUNT]>>
             /\ asmFault \notin StoreErrors => context = storeResult
        ELSE /\ findCalls = <<>>
             /\ context = <<>>

C10_Witness ==
    /\ pc = "FINALIZED"
    /\ Contains(system_message, ContextMarker)
    /\ Len(findCalls) = 1
    /\ context = <<"d2", "d1">>

C10_WitnessNoMarker ==
    /\ pc = "FINALIZED"
    /\ ~Contains(system_message, ContextMarker)
    /\ findCalls = <<>>

\* ------------------------------------------ texts, for C11 to C13, C18, C20
RECURSIVE Esc(_)
\* the text with every brace written twice
Esc(h) ==
    IF h = <<>> THEN <<>>
    ELSE (IF Head(h) \in {"{", "}"} THEN <<Head(h), Head(h)>> ELSE <<Head(h)>>)
         \o Esc(Tail(h))

Matches(s, sub, i) == i + Len(sub) - 1 <= Len(s) /\ SubSeq(s, i, i + Len(sub) - 1) = sub

\* the place of the first occurrence of sub in s, 0 when there is none
FirstAt(s, sub) ==
    IF \E i \in 1..Len(s) : Matches(s, sub, i)
    THEN CHOOSE i \in 1..Len(s) :
            Matches(s, sub, i) /\ \A j \in 1..(i - 1) : ~Matches(s, sub, j)
    ELSE 0

BeforeFirst(s, sub) == SubSeq(s, 1, FirstAt(s, sub) - 1)
AfterFirst(s, sub) == SubSeq(s, FirstAt(s, sub) + Len(sub), Len(s))

\* s with its first occurrence of sub, if any, replaced by new
SubstFirst(s, sub, new) ==
    IF FirstAt(s, sub) = 0 THEN s
    ELSE BeforeFirst(s, sub) \o new \o AfterFirst(s, sub)

\* the number of places of s where sub begins
Occurrences(s, sub) == Cardinality({ i \in 1..Len(s) : Matches(s, sub, i) })

IsAddHistory == call.fn = "add_history"
IsGetPrompt == call.fn = "get_unity_communication_prompt"
IsCreateToken == call.fn = "create_access_token"

\* --------------------------------------------------------------------- C11
\* C11: add_history writes every brace of the history twice, once, before it
\* substitutes: formatted_history is the history with each brace doubled,
\* the part of template_with_history that came from the history is
\* formatted_history, and the template around it is unchanged.
C11_HistoryEscapedOnce ==
    IsAddHistory =>
        LET p == FirstAt(call.template, HistoryMarker)
            fh == ret.formatted_history
            twh == ret.template_with_history
        IN  /\ fh = Esc(call.history)
            /\ p = 0 => twh = call.template
            /\ p # 0 =>
                /\ SubSeq(twh, 1, p - 1) = SubSeq(call.template, 1, p - 1)
                /\ SubSeq(twh, p, p + Len(fh) - 1) = fh
                /\ SubSeq(twh, p + Len(fh), Len(twh))
                       = SubSeq(call.template, p + Len(HistoryMarker),
                                Len(call.template))

C11_Witness ==
    /\ IsAddHistory
    /\ call.history = <<"{", "a", "}">>
    /\ call.template = <<"{", "x", "}">> \o HistoryMarker \o <<"{", "y", "}">>
                           \o HistoryMarker
    /\ ret.template_with_history
           = <<"{", "x", "}", "{", "{", "a", "}", "}", "{", "y", "}">>
                 \o HistoryMarker

\* --------------------------------------------------------------------- C12
\* C12: with an empty history formatted_history is empty and
\* template_with_history is the template with its (first) {history}
\* placeholder removed; a template without the placeholder is unchanged.
C12_EmptyHistory ==
    IsAddHistory /\ call.history = <<>> =>
        /\ ret.formatted_history = <<>>
        /\ ret.template_with_history = SubstFirst(call.template, HistoryMarker, <<>>)
        /\ ~Contains(call.template, HistoryMarker)
               => ret.template_with_history = call.template

C12_Witness ==
    /\ IsAddHistory
    /\ call.history = <<>>
    /\ call.template = HistoryMarker \o <<"Q", ":">> \o QuestionMarker
    /\ ret.template_with_history = <<"Q", ":">> \o QuestionMarker
    /\ ret.formatted_history = <<>>

\* --------------------------------------------------------------------- C13
\* C13: with the URL unset get_unity_communication_prompt returns None, not
\* an empty text, and does not read the history repository; with the URL
\* set it returns the function template with the (escaped) history in place
\* of {history} and the message in place of {question}.
C13_PromptOrNone ==
    IsGetPrompt =>
        IF unity_url = ""
        THEN /\ ret.value.none
             /\ ret.value # [none |-> FALSE, text |-> <<>>]
             /\ ret.reads = 0
        ELSE /\ ~ret.value.none
             /\ ret.reads = 1
             /\ ~Contains(call.history, <<"{">>) =>
                    ret.value.text =
                        SubstFirst(SubstFirst(call.template, HistoryMarker,
                                              call.history),
                                   QuestionMarker, call.message)

C13_Witness ==
    /\ IsGetPrompt
    /\ unity_url = ""
    /\ ret.value.none
    /\ call.history = <<"a">>

\* --------------------------------------------------------------------- C14
\* C14: a token is issued if and only if client_id and client_secret both
\* equal the configured values; otherwise the call fails with the
\* invalid-credentials error and there is no token; the subject of an
\* issued token is the user_id given.
C14_TokenIffCredentials ==
    IsCreateToken =>
        /\ (ret.raised = None) <=>
               (call.client_id = JWT_CLIENT_ID
                    /\ call.client_secret = JWT_CLIENT_SECRET)
        /\ ret.raised # None =>
               ret.raised = "InvalidCredentialsAPIError" /\ ret.token = NoToken
        /\ ret.raised = None =>
               ret.token # NoToken /\ ret.token.payload.sub = call.user_id

C14_Witness ==
    /\ IsCreateToken
    /\ call.client_id = JWT_CLIENT_ID
    /\ call.client_secret = "other-secret"
    /\ ret.raised = "InvalidCredentialsAPIError"

\* --------------------------------------------------------------------- C18
\* C18: in the communication prompt the message is put in the template's own
\* {question} placeholder, and the part that came from the history is the
\* escaped history, whatever the history holds.
C18_HistoryIsNoSubstitutionPoint ==
    IsGetPrompt /\ unity_url # "" =>
        LET t == call.template
            e == Esc(call.history)
        IN  ret.value.text =
                IF FirstAt(t, HistoryMarker) = 0
                THEN SubstFirst(t, QuestionMarker, call.message)
                ELSE IF Contains(BeforeFirst(t, HistoryMarker), QuestionMarker)
                THEN SubstFirst(BeforeFirst(t, HistoryMarker), QuestionMarker,
                                call.message)
                         \o e \o AfterFirst(t, HistoryMarker)
                ELSE BeforeFirst(t, HistoryMarker) \o e
                         \o SubstFirst(AfterFirst(t, HistoryMarker),
                                       QuestionMarker, call.message)

\* --------------------------------------------------------------------- C20
\* C20: add_history puts the escaped history in place of the first {history}
\* of the template only: what follows it, later {history} included, is kept
\* as it is, and the text put in is not searched again.
C20_FirstOccurrenceOnly ==
    IsAddHistory =>
        /\ ret.template_with_history
               = SubstFirst(call.template, HistoryMarker, ret.formatted_history)
        /\ Contains(call.template, HistoryMarker) =>
               Occurrences(ret.template_with_history, HistoryMarker)
                   = Occurrences(call.template, HistoryMarker) - 1
                         + Occurrences(ret.formatted_history, HistoryMarker)

C20_Witness ==
    /\ IsAddHistory
    /\ call.template = HistoryMarker \o <<"|">> \o HistoryMarker
    /\ call.history = HistoryMarker
    /\ ret.template_with_history
           = <<"{">> \o HistoryMarker \o <<"}", "|">> \o HistoryMarker

\* --------------------------------------------------------------------- C15
\* C15: when the generator is closed while it waits for the next event or
\* has handed over a chunk, the finally block runs: validate_urls and
\* save_history are called once (with the empty result, which was never
\* read), no error chunk is added for the cancellation, and the task is not
\* cancelled.
C15_CancelStillFinalizes ==
    cancelledAt \in {"await_event", "after_token", "after_loading", "after_error"} =>
        /\ pc = "FINALIZED"
        /\ Len(saves) = 1 /\ Len(validations) = 1
        /\ saves[1].output_message = ""
        /\ Cardinality(ErrorIdx) = IF cancelledAt = "after_error" THEN 1 ELSE 0
        /\ (cancelledAt # "after_error") = (exc = None)
        /\ task \in {"pending", "returned", "raised"}

\* the generator was closed while it waited for an event, after a chunk;
\* save_history has been called and the task is still running
C15_Witness ==
    /\ cancelledAt = "await_event"
    /\ Len(chunks) = 1
    /\ task = "pending"
    /\ Len(saves) = 1

\* --------------------------------------------------------------------- C16
\* C16: the generator waits for the task, and reads its result or its
\* exception, only when the channel is exhausted (completed, with every event
\* delivered); on the success path save_history is called after the task
\* has returned.
C16_ResultReadAfterExhaustion ==
    /\ pc = "await_task" \/ result # "" \/ exc \in TaskErrors =>
           queue = <<>> /\ done /\ consumed = Len(produced)
    /\ result # "" => task = "returned" /\ result = task_value
    /\ pc = "FINALIZED" /\ exc = None /\ cancelledAt = "none" =>
           task = "returned" /\ Len(saves) = 1

C16_Witness ==
    /\ pc = "FINALIZED"
    /\ cancelledAt = "none"
    /\ result = "Hi there"
    /\ consumed = 2 /\ Len(produced) = 2
    /\ Len(saves) = 1

\* --------------------------------------------------------------------- C17
\* C17: validate_urls is called with the text and the chat_id that
\* save_history then receives; it is called in the finally block, when the
\* generator yields no more chunks; and save_history is called after it,
\* also when the validation failed.
C17_ValidationThenSave ==
    /\ Len(validations) = Len(saves)
    /\ Len(validation_failures) = Len(validations)
    /\ \A i \in 1..Len(validations) :
           /\ validations[i].text = saves[i].output_message
           /\ validations[i].chat_id = saves[i].chat_id
    /\ validations # <<>> =>
           /\ pc = "FINALIZED"
           /\ response_stamp[1].validated = 1
           /\ response_stamp[1].saved = 0

C17_Witness ==
    /\ validation_failures = <<"ValidationError">>
    /\ Len(chunks) = 2
    /\ validations[1].text = "Hi there"
    /\ saves[1].output_message = "Hi there"

\* --------------------------------------------------------------------- C19
\* C19: the request timestamp saved was read when the context and the
\* history had been assembled and the task was not yet created; the response
\* timestamp was read when the stream ended, before the validation pass and
\* the save; the request timestamp is not later than the response timestamp.
C19_StampsAtAssemblyEndAndStreamEnd ==
    Len(saves) = 1 =>
        /\ request_stamp[1].finds = Len(findCalls)
        /\ request_stamp[1].history_reads = historyReads
        /\ ~request_stamp[1].started
        /\ response_stamp[1].validated = 0
        /\ response_stamp[1].saved = 0
        /\ saves[1].request_timestamp <= saves[1].response_timestamp

====
